---- MODULE Spec2Model ----
(***************************************************************************)
(* Model of the IBL / SmartSPIM conversion launcher (code/extension.py):   *)
(* the Neuroglancer state object, the artifact listings of a subject, the  *)
(* manifest builder, the publish / register / wait lifecycle and the       *)
(* capsule launch.                                                          *)
(***************************************************************************)
EXTENDS Integers, Sequences, FiniteSets, TLC

\* ------------------------------------------------------------------ bounds
MaxLayers == 3      \* layers of a state document
MaxNames == 2       \* length of a recording-name list passed to get_partial_df
MaxCalls == 3       \* property reads of NeuroglancerState.session per object

\* --------------------------------------------------------------- constants
NoId == "none"
NoAsset == [id |-> 0, name |-> "", created |-> 0, err |-> FALSE]
SubjectId == "123456"

\* ----------------------------------------------------------------- helpers
Range(s) == {s[i] : i \in 1..Len(s)}

SeqsUpTo(S, n) == UNION {[1..k -> S] : k \in 0..n}

RECURSIVE Concat(_)
Concat(ss) == IF ss = <<>> THEN <<>> ELSE Head(ss) \o Concat(Tail(ss))

\* ------------------------------------------------- the state document model
\* npc_session.AINDSessionRecord(source): the session id found in a source
\* string, or a ValueError (NoId) when the string holds none.
AINDSessionRecord(source) ==
    CASE source = "s3://b/SmartSPIM_123456_2023-01-01_00-00-00/ch0.zarr"
            -> "SmartSPIM_123456_2023-01-01_00-00-00"
      [] source = "s3://b/SmartSPIM_123456_2023-01-01_00-00-00/ch1.zarr"
            -> "SmartSPIM_123456_2023-01-01_00-00-00"
      [] source = "s3://b/SmartSPIM_123456_2024-02-02_00-00-00/ch0.zarr"
            -> "SmartSPIM_123456_2024-02-02_00-00-00"
      [] OTHER -> NoId

ImageLayers ==
    { [type |-> "image", name |-> "img", source |-> s] :
        s \in { "s3://b/SmartSPIM_123456_2023-01-01_00-00-00/ch0.zarr",
                "s3://b/SmartSPIM_123456_2023-01-01_00-00-00/ch1.zarr",
                "s3://b/SmartSPIM_123456_2024-02-02_00-00-00/ch0.zarr",
                "precomputed://atlas/ccf" } }

AnnotationLayers ==
    { [type |-> "annotation", name |-> n, source |-> ""] : n \in {"probeA", "probeB"} }

Layers == ImageLayers \cup AnnotationLayers

\* content["layers"] of a document
Documents == SeqsUpTo(Layers, MaxLayers)

IsImage(layer) == layer.type = "image"
IsAnnotation(layer) == layer.type = "annotation"

image_sources(content) ==
    LET imgs == SelectSeq(content, IsImage)
    IN  [i \in 1..Len(imgs) |-> imgs[i].source]

annotation_names_nodup(content) ==
    LET anns == SelectSeq(content, IsAnnotation)
        keep(i) == \A j \in 1..(i-1) : anns[j].name # anns[i].name
        RECURSIVE go(_)
        go(i) == IF i > Len(anns) THEN <<>>
                 ELSE (IF keep(i) THEN <<anns[i].name>> ELSE <<>>) \o go(i+1)
    IN  go(1)

annotation_names(content) ==
    LET anns == SelectSeq(content, IsAnnotation)
    IN  [i \in 1..Len(anns) |-> anns[i].name]

\* the set built by the loop of NeuroglancerState.session: sources that raise
\* ValueError are skipped
session_ids(content) ==
    {AINDSessionRecord(s) : s \in Range(image_sources(content))} \ {NoId}

needs_derive_always(cached) == TRUE

\* `if self._session is None`
needs_derive(cached) == cached = NoId


\* ------------------------------------------------ the subject's sessions
\* Raw and processed data assets of the catalogue: id, name, created, and
\* (processed assets) the is_sorting_error flag.
Asset(i, n, c, e) == [id |-> i, name |-> n, created |-> c, err |-> e]

\* Python string order of the asset names used by sorted()
NameOrder == <<"recA", "recB", "recC", "recX">>
RecordingNames == Range(NameOrder)
NameRank(n) == CHOOSE k \in 1..Len(NameOrder) : NameOrder[k] = n

\* aind_session.Subject.sessions of subject 123456, in directory order
\* nSpim: how many SmartSPIM sessions have a raw asset; rawMissing: ecephys
\* session 2 has no raw asset yet; allErr: the only sorting of ecephys
\* session 3 is errored
AllSessions(nSpim, rawMissing, allErr) ==
    << [id |-> "ecephys_123456_2023-03-01", platform |-> "ecephys",
        raw |-> Asset(11, "ecephys_123456_2023-03-01", 4, FALSE),
        sorted |-> << Asset(21, "recB", 5, FALSE), Asset(22, "recA", 2, FALSE) >>],
       [id |-> "SmartSPIM_123456_2023-01-01", platform |-> "SmartSPIM",
        raw |-> IF nSpim >= 1 THEN Asset(31, "SmartSPIM_123456_2023-01-01", 7, FALSE)
                ELSE NoAsset,
        sorted |-> <<>>],
       [id |-> "ecephys_123456_2023-03-02", platform |-> "ecephys",
        raw |-> IF rawMissing THEN NoAsset
                ELSE Asset(12, "ecephys_123456_2023-03-02", 1, FALSE),
        sorted |-> << Asset(23, "recA", 3, FALSE), Asset(24, "recC", 6, TRUE) >>],
       [id |-> "SmartSPIM_123456_2022-05-05", platform |-> "SmartSPIM",
        raw |-> IF nSpim >= 2 THEN Asset(32, "SmartSPIM_123456_2022-05-05", 1, FALSE)
                ELSE NoAsset,
        sorted |-> <<>>],
       [id |-> "ecephys_123456_2023-03-03", platform |-> "ecephys",
        raw |-> Asset(13, "ecephys_123456_2023-03-03", 4, FALSE),
        sorted |-> << Asset(25, "recC", 3, allErr) >>] >>

\* a subject with the first nSessions of these sessions
World(nSessions, nSpim, rawMissing, allErr) ==
    SubSeq(AllSessions(nSpim, rawMissing, allErr), 1, nSessions)

\* aind_session.utils.codeocean_utils.sort_by_created: sorted(assets,
\* key=created), a stable sort
RECURSIVE sort_by_created(_)
sort_by_created(assets) ==
    IF assets = <<>> THEN <<>>
    ELSE LET done == sort_by_created(SubSeq(assets, 1, Len(assets) - 1))
             x == assets[Len(assets)]
             k == Cardinality({i \in 1..Len(done) : done[i].created <= x.created})
         IN  SubSeq(done, 1, k) \o <<x>> \o SubSeq(done, k + 1, Len(done))

\* sorted(names): Python's stable sort of strings
RECURSIVE sorted_names(_)
sorted_names(names) ==
    IF names = <<>> THEN <<>>
    ELSE LET done == sorted_names(SubSeq(names, 1, Len(names) - 1))
             x == names[Len(names)]
             k == Cardinality({i \in 1..Len(done) : NameRank(done[i]) <= NameRank(x)})
         IN  SubSeq(done, 1, k) \o <<x>> \o SubSeq(done, k + 1, Len(done))

IsEcephys(sess) == sess.platform = "ecephys"
IsSmartSPIM(sess) == sess.platform = "SmartSPIM"
HasRaw(sess) == sess.raw # NoAsset
NotSortingError(a) == ~a.err

\* IBLDataConverterExtension.ecephys_sessions: sorted() of the ecephys
\* sessions (session records order by their id, i.e. by date here)
ecephys_sessions(ss) == SelectSeq(ss, IsEcephys)

\* IBLDataConverterExtension.ecephys_data_assets
ecephys_data_assets(ss) ==
    LET have == SelectSeq(ecephys_sessions(ss), HasRaw)
    IN  sort_by_created([i \in 1..Len(have) |-> have[i].raw])

smartspim_unsorted(ss) ==
    LET have == SelectSeq(SelectSeq(ss, IsSmartSPIM), HasRaw)
    IN  [i \in 1..Len(have) |-> have[i].raw]

\* IBLDataConverterExtension.smartspim_data_assets
smartspim_data_assets(ss) ==
    LET have == SelectSeq(SelectSeq(ss, IsSmartSPIM), HasRaw)
    IN  sort_by_created([i \in 1..Len(have) |-> have[i].raw])

\* get_session_assets(session), the task of the fan-out
get_session_assets(sess) == SelectSeq(sess.sorted, NotSortingError)

listing_result_unsorted(assets) == assets

\* `return sort_by_created(assets_all_sessions)`
listing_result(assets) == sort_by_created(assets)


\* ------------------------------------------------------------------- state
VARIABLES
    op, pc, result, err,              \* the running operation, its position and outcome
    content, ng_session,              \* NeuroglancerState.content and ._session
    derivations, calls,               \* runs of the derivation loop / reads of .session
    sessions,                         \* the subject's sessions in the directory
    futures, completed, consumed,     \* fan-out: task states, completion order, as_completed cursor
    assets_all_sessions,              \* fan-out: the aggregate
    b_content, b_name, b_names,       \* get_partial_df: loaded state, its stem, the names passed
    files,                            \* storage_dir: path -> content
    clock,                            \* time.time(), in seconds
    catalog,                          \* data assets registered by create_data_asset, in creation order
    cache,                            \* get_data_assets' cache entry of the current ttl bucket
    computations,                     \* capsule runs accepted by the platform
    writes, last_pub,                 \* history: writes to the store; the publish call before this one
    path, t0, timeout_sec,            \* write / create_manifest_asset: locals of the poll loop
    polls, seen,                      \* history: exists() calls of the loop; the last answer
    asset_name, skip_existing,        \* create_manifest_asset: arguments
    new_asset,                        \* the asset created by this call (index in catalog, 0: none)
    ready_timeout,                    \* the timeout handed to wait_until_ready
    regs0, writes0                    \* history: len(catalog) and writes when the call began

prog == <<op, pc, result, err>>
ngvars == <<content, ng_session, derivations, calls>>
fanvars == <<futures, completed, consumed, assets_all_sessions>>
buildvars == <<b_content, b_name, b_names>>
envvars == <<clock, catalog, cache, computations, writes, last_pub>>
lifevars == <<path, t0, timeout_sec, polls, seen, asset_name, skip_existing, new_asset,
              ready_timeout, regs0, writes0>>
vars == <<prog, ngvars, sessions, fanvars, buildvars, files, envvars, lifevars>>

Idle == pc = "idle"

InitProg == op = "none" /\ pc = "idle" /\ result = <<>> /\ err = ""
InitFan == futures = <<>> /\ completed = <<>> /\ consumed = 0 /\ assets_all_sessions = <<>>
InitBuild == b_content = <<>> /\ b_name = <<>> /\ b_names = <<>>
NoCache == <<-1>>
NoPub == [valid |-> FALSE]
InitEnv ==
    /\ clock = 0 /\ catalog = <<>> /\ cache = NoCache /\ computations = <<>>
    /\ writes = 0 /\ last_pub = NoPub
InitLife ==
    /\ path = <<>> /\ t0 = 0 /\ timeout_sec = 0 /\ polls = 0 /\ seen = FALSE
    /\ asset_name = <<>> /\ skip_existing = FALSE /\ new_asset = 0 /\ ready_timeout = 0
    /\ regs0 = 0 /\ writes0 = 0
ClearLife ==
    /\ path' = <<>> /\ t0' = 0 /\ timeout_sec' = 0 /\ polls' = 0 /\ seen' = FALSE
    /\ asset_name' = <<>> /\ skip_existing' = FALSE /\ new_asset' = 0 /\ ready_timeout' = 0
    /\ regs0' = 0 /\ writes0' = 0
InitNg(doc) == content = doc /\ ng_session = NoId /\ derivations = 0 /\ calls = 0

\* the locals of an operation that is not running hold their initial values
ClearFan == futures' = <<>> /\ completed' = <<>> /\ consumed' = 0 /\ assets_all_sessions' = <<>>
ClearBuild == b_content' = <<>> /\ b_name' = <<>> /\ b_names' = <<>>

\* the caller takes the value or the exception of the operation that ended
Return ==
    /\ pc \in {"done", "error"}
    /\ op' = "none" /\ pc' = "idle" /\ result' = <<>> /\ err' = ""
    /\ ClearFan /\ ClearBuild /\ ClearLife
    /\ last_pub' = IF op = "publish"
                   THEN IF pc = "done"
                        THEN [valid |-> TRUE, name |-> asset_name, skip |-> skip_existing,
                              id |-> result, writes |-> writes, regs |-> Len(catalog)]
                        ELSE NoPub
                   ELSE last_pub
    /\ UNCHANGED <<ngvars, sessions, files, clock, catalog, cache, computations, writes>>

\* ----------------------------------------------- NeuroglancerState.session
\* One read of the `session` property.
session ==
    /\ Idle
    /\ calls < MaxCalls
    /\ calls' = calls + 1
    /\ op' = "session"
    /\ IF needs_derive(ng_session)
       THEN /\ derivations' = derivations + 1
            /\ LET ids == session_ids(content)
               IN  IF ids = {}
                   THEN /\ pc' = "error" /\ err' = "ValueError"
                        /\ result' = <<>>
                        /\ UNCHANGED ng_session
                   ELSE IF Cardinality(ids) > 1
                   THEN /\ pc' = "error" /\ err' = "NotImplementedError"
                        /\ result' = <<>>
                        /\ UNCHANGED ng_session
                   ELSE /\ ng_session' = CHOOSE x \in ids : TRUE
                        /\ result' = ng_session'
                        /\ pc' = "done" /\ err' = ""
       ELSE /\ result' = ng_session
            /\ pc' = "done" /\ err' = ""
            /\ UNCHANGED <<ng_session, derivations>>
    /\ UNCHANGED <<content, sessions, fanvars, buildvars, files, envvars, lifevars>>

\* --------------------------------- IBLDataConverterExtension.sorted_data_assets
EcephysIdx(ss) == {i \in 1..Len(ss) : IsEcephys(ss[i])}

\* executor.submit for every ecephys session
submit_all ==
    /\ futures' = [i \in EcephysIdx(sessions) |-> "pending"]
    /\ completed' = <<>>
    /\ consumed' = 0
    /\ assets_all_sessions' = <<>>
    /\ pc' = "fanout"

\* a worker thread ends the task of session i: it returns or raises
TaskFinish(i) ==
    /\ pc \in {"fanout", "shutdown"}
    /\ i \in DOMAIN futures
    /\ futures[i] = "pending"
    /\ \E outcome \in {"ok", "raised"} :
          futures' = [futures EXCEPT ![i] = outcome]
    /\ completed' = Append(completed, i)
    /\ UNCHANGED <<prog, ngvars, sessions, consumed, assets_all_sessions, buildvars, files, envvars, lifevars>>

\* one iteration of `for future in as_completed(...)`: future.result()
\* re-raises the task's exception, which leaves the loop and the with block
as_completed_step ==
    /\ pc = "fanout"
    /\ consumed < Len(completed)
    /\ consumed' = consumed + 1
    /\ LET i == completed[consumed + 1]
           assets_this_session == get_session_assets(sessions[i])
       IN  IF futures[i] = "raised"
           THEN /\ pc' = "shutdown"
                /\ UNCHANGED assets_all_sessions
           ELSE /\ pc' = pc
                /\ assets_all_sessions' =
                      IF assets_this_session = <<>> THEN assets_all_sessions
                      ELSE assets_all_sessions \o assets_this_session
    /\ UNCHANGED <<op, result, err, ngvars, sessions, futures, completed, buildvars, files, envvars, lifevars>>

\* executor.__exit__ waits for the running tasks, then the exception reaches
\* the caller of sorted_data_assets (and of get_partial_df, run_data_converter_capsule)
fanout_raise ==
    /\ pc = "shutdown"
    /\ \A i \in DOMAIN futures : futures[i] # "pending"
    /\ pc' = "error"
    /\ err' = "FetchError"
    /\ UNCHANGED <<op, result, ngvars, sessions, fanvars, buildvars, files, envvars, lifevars>>

FanoutOver == pc = "fanout" /\ consumed = Cardinality(DOMAIN futures)

\* a read of the property sorted_data_assets
sorted_data_assets_call ==
    /\ Idle
    /\ op' = "listing" /\ result' = <<>> /\ err' = ""
    /\ submit_all
    /\ UNCHANGED <<ngvars, sessions, buildvars, files, envvars, lifevars>>

sorted_data_assets_return ==
    /\ op = "listing"
    /\ FanoutOver
    /\ result' = listing_result(assets_all_sessions)
    /\ pc' = "done"
    /\ UNCHANGED <<op, err, ngvars, sessions, fanvars, buildvars, files, envvars, lifevars>>


\* ------------------------------------------------------------ storage paths
\* A path is <<directory, name, timestamp>>; its stem is <<name, timestamp>>,
\* standing for "<name>_neuroglancer-state_<timestamp>" (state documents).
StateDir == "neuroglancer_states"
StatePath(stem) == <<StateDir, stem[1], stem[2]>>
Stem(p) == <<p[2], p[3]>>
NoName == <<>>

Sid1 == "SmartSPIM_123456_2023-01-01_00-00-00"
Sid2 == "SmartSPIM_123456_2024-02-02_00-00-00"
SidOther == "SmartSPIM_999999_2023-01-01_00-00-00"

\* Python string order of the session ids that start a stem
SessionIdOrder == <<Sid1, Sid2, SidOther>>
SidRank(n) == CHOOSE k \in 1..Len(SessionIdOrder) : SessionIdOrder[k] = n

\* glob(f"*{self._base.id}_*.json")
GlobMatches(p) == p[1] = StateDir /\ p[2] \in {Sid1, Sid2}

\* key=lambda p: p.stem
StemLeq(p, q) ==
    \/ SidRank(p[2]) < SidRank(q[2])
    \/ SidRank(p[2]) = SidRank(q[2]) /\ p[3] <= q[3]

RECURSIVE SortByStem(_)
SortByStem(S) ==
    IF S = {} THEN <<>>
    ELSE LET m == CHOOSE x \in S : \A y \in S : StemLeq(x, y)
         IN  <<m>> \o SortByStem(S \ {m})

\* NeuroglancerExtension.state_json_paths
state_json_paths(fs) == SortByStem({p \in DOMAIN fs : GlobMatches(p)})

\* --------------------------------- IBLDataConverterExtension.get_partial_df
ManifestRecord(mouseid, probe_id, sorted_recording, probe_file) ==
    [mouseid |-> mouseid, probe_id |-> probe_id, probe_name |-> "",
     sorted_recording |-> sorted_recording, probe_file |-> probe_file,
     surface_finding |-> "None", annotation_format |-> "json"]

\* the two nested loops over annotation names and recording names
records(labels, names, probe_file) ==
    Concat([i \in 1..Len(labels) |->
              [j \in 1..Len(names) |->
                 ManifestRecord(SubjectId, labels[i], names[j], probe_file)]])

AssetNames(assets) == [i \in 1..Len(assets) |-> assets[i].name]

use_all_never(names) == FALSE

\* `if not sorted_data_asset_names:` the names of all sorted assets are used
use_all(names) == names = <<>>

get_partial_df_call(name_arg, names_arg) ==
    /\ Idle
    /\ op' = "build"
    /\ LET paths == state_json_paths(files)
           found == IF name_arg = NoName THEN paths # <<>>
                    ELSE StatePath(name_arg) \in DOMAIN files
           stem == IF name_arg = NoName THEN Stem(paths[Len(paths)]) ELSE name_arg
       IN  IF ~found
           THEN /\ pc' = "error" /\ err' = "FileNotFoundError"
                /\ result' = <<>>
                /\ UNCHANGED <<fanvars, buildvars>>
           ELSE /\ b_name' = stem
                /\ b_content' = files[StatePath(stem)]
                /\ b_names' = names_arg
                /\ err' = ""
                /\ IF use_all(names_arg)
                   THEN /\ result' = <<>>
                        /\ submit_all
                   ELSE /\ result' = records(annotation_names(b_content'), names_arg, stem)
                        /\ pc' = "done"
                        /\ UNCHANGED fanvars
    /\ UNCHANGED <<ngvars, sessions, files, envvars, lifevars>>

get_partial_df_return ==
    /\ op = "build"
    /\ FanoutOver
    /\ result' = records(annotation_names(b_content),
                         sorted_names(AssetNames(listing_result(assets_all_sessions))),
                         b_name)
    /\ pc' = "done"
    /\ UNCHANGED <<op, err, ngvars, sessions, fanvars, buildvars, files, envvars, lifevars>>

\* ------------------------------------------------ specification: identity
InitIdentity ==
    /\ InitProg /\ InitFan /\ InitBuild /\ InitEnv /\ InitLife
    /\ \E doc \in Documents : InitNg(doc)
    /\ sessions = World(5, 1, FALSE, FALSE)
    /\ files = <<>>

NextIdentity == session \/ Return

SpecIdentity == InitIdentity /\ [][NextIdentity]_vars

\* --------------------------------- specification: listings and the manifest
\* the layers that matter to the manifest: annotations, and an image layer
ManifestLayers ==
    AnnotationLayers \cup
    { [type |-> "image", name |-> "img",
       source |-> "s3://b/SmartSPIM_123456_2023-01-01_00-00-00/ch0.zarr"] }

OldDoc == << [type |-> "annotation", name |-> "probeB", source |-> ""] >>

NameArgs == {NoName, <<Sid1, 1>>, <<Sid1, 9>>}

InitCatalog ==
    /\ InitProg /\ InitFan /\ InitBuild /\ InitEnv /\ InitLife
    /\ InitNg(<<>>)
    /\ \E allErr \in BOOLEAN : sessions = World(5, 1, FALSE, allErr)
    /\ \/ files = <<>>
       \/ \E doc \in SeqsUpTo(ManifestLayers, MaxLayers) :
             files = (StatePath(<<Sid1, 0>>) :> OldDoc) @@ (StatePath(<<Sid1, 1>>) :> doc)

NextCatalog ==
    \/ sorted_data_assets_call
    \/ sorted_data_assets_return
    \/ \E i \in 1..Len(sessions) : TaskFinish(i)
    \/ as_completed_step
    \/ fanout_raise
    \/ \E name_arg \in NameArgs, names_arg \in SeqsUpTo(RecordingNames, MaxNames) :
          get_partial_df_call(name_arg, names_arg)
    \/ get_partial_df_return
    \/ Return

SpecCatalog == InitCatalog /\ [][NextCatalog]_vars


\* ------------------------------------------------- publish and register
MaxClock == 2       \* calls begin, and idle time passes, up to this time
MaxTimeout == 2     \* a timeout_sec a caller passes
MaxAssets == 2      \* data assets registered in one run
MaxWrites == 2      \* writes to the store in one run
MaxRuns == 1        \* capsule runs in one run

DefaultTimeout == 10    \* timeout_sec: float = 10
ReadyTimeout == 60      \* wait_until_ready(timeout=60)
Timeouts == {0, MaxTimeout, DefaultTimeout}

\* csv_manifest_path and its stem
ManifestPath == <<"manifests", "123456_data_converter_manifest", 0>>
CustomName == <<"my_manifest", 0>>
CatalogId(i) == 100 + i

\* the document of the state object in the lifecycle specifications
GoodDoc ==
    << [type |-> "image", name |-> "img",
        source |-> "s3://b/SmartSPIM_123456_2023-01-01_00-00-00/ch0.zarr"],
       [type |-> "annotation", name |-> "probeA", source |-> ""] >>

\* the value of the session property: the cached id, or the derivation
session_value(cached, doc) ==
    IF needs_derive(cached)
    THEN LET ids == session_ids(doc)
         IN  IF ids = {} THEN [id |-> NoId, err |-> "ValueError"]
             ELSE IF Cardinality(ids) > 1 THEN [id |-> NoId, err |-> "NotImplementedError"]
             ELSE [id |-> CHOOSE x \in ids : TRUE, err |-> ""]
    ELSE [id |-> cached, err |-> ""]

\* aind_session.utils.codeocean_utils.get_data_assets(name): the assets of
\* that name, by creation
RECURSIVE get_data_assets(_, _, _)
get_data_assets(cat, name, i) ==
    IF i > Len(cat) THEN <<>>
    ELSE (IF cat[i].name = name THEN <<i>> ELSE <<>>) \o get_data_assets(cat, name, i + 1)

\* get_data_assets(stem, ttl_hash=get_ttl_hash(seconds=1)): within one ttl
\* bucket the first answer is returned again
cached_get_data_assets ==
    IF cache # NoCache THEN cache ELSE get_data_assets(catalog, Stem(ManifestPath), 1)

loop_continues_early(now, start, timeout) == now - start + 1 < timeout

\* `while time.time() - t0 < timeout_sec`
loop_continues(now, start, timeout) == now - start < timeout

is_ready_any(state) == TRUE

\* wait_until_ready returns the asset once the platform reports it ready
is_ready(state) == state = "ready"

\* time passes: the ttl bucket of get_ttl_hash(seconds=1) changes
Tick ==
    /\ pc \in {"idle", "wait"}
    /\ clock < MaxClock
    /\ clock' = clock + 1
    /\ cache' = NoCache
    /\ UNCHANGED <<prog, ngvars, sessions, fanvars, buildvars, files, catalog,
                   computations, writes, last_pub, lifevars>>

\* the platform finishes the creation of a registered asset
platform_ready(i) ==
    /\ i \in 1..Len(catalog)
    /\ catalog[i].state = "pending"
    /\ catalog' = [catalog EXCEPT ![i].state = "ready"]
    /\ UNCHANGED <<prog, ngvars, sessions, fanvars, buildvars, files, clock, cache,
                   computations, writes, last_pub, lifevars>>

\* path.write_text(...) ; t0 = time.time()
write_text(p, text, timeout) ==
    /\ files' = (p :> text) @@ files
    /\ writes' = writes + 1
    /\ path' = p
    /\ t0' = clock
    /\ timeout_sec' = timeout
    /\ polls' = 0 /\ seen' = FALSE
    /\ new_asset' = 0 /\ ready_timeout' = 0
    /\ regs0' = Len(catalog) /\ writes0' = writes
    /\ pc' = "poll"

\* NeuroglancerState.write(path, timeout_sec) and, with the defaults,
\* the self.write() of NeuroglancerState.create_data_asset
write_begin(o, path_arg, timeout) ==
    /\ Idle
    /\ clock <= MaxClock
    /\ writes < MaxWrites
    /\ o = "state_asset" => Len(catalog) < MaxAssets
    /\ op' = o
    /\ last_pub' = NoPub
    /\ asset_name' = <<>> /\ skip_existing' = FALSE
    /\ LET sv == session_value(ng_session, content)
       IN  IF path_arg # NoName
           THEN /\ write_text(path_arg, content, timeout)
                /\ result' = <<>> /\ err' = ""
                /\ UNCHANGED <<ng_session, derivations>>
           ELSE /\ derivations' = IF needs_derive(ng_session) THEN derivations + 1
                                  ELSE derivations
                /\ ng_session' = sv.id
                /\ IF sv.err # ""
                   THEN /\ pc' = "error" /\ err' = sv.err /\ result' = <<>>
                        /\ UNCHANGED <<files, writes, path, t0, timeout_sec, polls, seen,
                                       new_asset, ready_timeout, regs0, writes0>>
                   ELSE /\ write_text(StatePath(<<sv.id, clock>>), content, timeout)
                        /\ result' = <<>> /\ err' = ""
    /\ UNCHANGED <<content, calls, sessions, fanvars, buildvars, clock, catalog, cache,
                   computations>>

write_call(path_arg, timeout) == write_begin("write", path_arg, timeout)

create_data_asset_call == write_begin("state_asset", NoName, DefaultTimeout)

\* IBLDataConverterExtension.create_manifest_asset up to the poll loop
create_manifest_asset_call(completed_df, name_arg, skip, timeout) ==
    /\ Idle
    /\ clock <= MaxClock
    /\ writes < MaxWrites
    /\ Len(catalog) < MaxAssets
    /\ op' = "publish"
    /\ asset_name' = name_arg /\ skip_existing' = skip
    /\ LET assets == IF skip THEN cached_get_data_assets ELSE <<>>
       IN  /\ cache' = IF skip THEN assets ELSE cache
           /\ IF skip /\ assets # <<>>
              THEN /\ result' = CatalogId(assets[Len(assets)])
                   /\ pc' = "done" /\ err' = ""
                   /\ new_asset' = 0 /\ ready_timeout' = 0
                   /\ regs0' = Len(catalog) /\ writes0' = writes
                   /\ UNCHANGED <<files, writes, path, t0, timeout_sec, polls, seen>>
              ELSE /\ write_text(ManifestPath, completed_df, timeout)
                   /\ result' = <<>> /\ err' = ""
    /\ UNCHANGED <<ngvars, sessions, fanvars, buildvars, clock, catalog, computations,
                   last_pub>>

\* one turn of the loop in which path.exists() is true: break
poll_exists ==
    /\ pc = "poll"
    /\ loop_continues(clock, t0, timeout_sec)
    /\ polls' = polls + 1
    /\ seen' = TRUE
    /\ IF op = "write"
       THEN pc' = "done" /\ result' = path
       ELSE pc' = "register" /\ result' = result
    /\ UNCHANGED <<op, err, ngvars, sessions, fanvars, buildvars, files, envvars,
                   path, t0, timeout_sec, asset_name, skip_existing, new_asset,
                   ready_timeout, regs0, writes0>>

\* one turn of the loop in which path.exists() is false: time.sleep(1)
poll_sleep ==
    /\ pc = "poll"
    /\ loop_continues(clock, t0, timeout_sec)
    /\ polls' = polls + 1
    /\ seen' = FALSE
    /\ clock' = clock + 1
    /\ cache' = NoCache
    /\ UNCHANGED <<prog, ngvars, sessions, fanvars, buildvars, files, catalog,
                   computations, writes, last_pub,
                   path, t0, timeout_sec, asset_name, skip_existing, new_asset,
                   ready_timeout, regs0, writes0>>

\* the else branch of the while loop
poll_timeout ==
    /\ pc = "poll"
    /\ ~loop_continues(clock, t0, timeout_sec)
    /\ pc' = "error"
    /\ err' = "TimeoutError"
    /\ UNCHANGED <<op, result, ngvars, sessions, fanvars, buildvars, files, envvars,
                   lifevars>>

\* data_assets.create_data_asset(asset_params)
register ==
    /\ pc = "register"
    /\ catalog' = Append(catalog,
          [name |-> IF op = "publish" /\ asset_name # NoName THEN asset_name
                    ELSE Stem(path),
           source |-> path,
           state |-> "pending"])
    /\ new_asset' = Len(catalog) + 1
    /\ ready_timeout' = ReadyTimeout
    /\ pc' = "wait"
    /\ UNCHANGED <<op, result, err, ngvars, sessions, fanvars, buildvars, files, clock,
                   cache, computations, writes, last_pub,
                   path, t0, timeout_sec, polls, seen, asset_name, skip_existing,
                   regs0, writes0>>

\* data_assets.wait_until_ready(asset, timeout=60) returns the ready asset
wait_returns ==
    /\ pc = "wait"
    /\ is_ready(catalog[new_asset].state)
    /\ pc' = "done"
    /\ result' = CatalogId(new_asset)
    /\ UNCHANGED <<op, err, ngvars, sessions, fanvars, buildvars, files, envvars,
                   lifevars>>

\* ... or raises after ReadyTimeout with the asset still pending
wait_times_out ==
    /\ pc = "wait"
    /\ catalog[new_asset].state = "pending"
    /\ pc' = "error"
    /\ err' = "ReadyTimeout"
    /\ UNCHANGED <<op, result, ngvars, sessions, fanvars, buildvars, files, envvars,
                   lifevars>>

\* ------------------------------------------- specification: the lifecycle
Init ==
    /\ InitProg /\ InitFan /\ InitBuild /\ InitEnv /\ InitLife
    /\ InitNg(GoodDoc)
    /\ sessions = World(5, 1, FALSE, FALSE)
    /\ files = <<>>

Next ==
    \/ \E path_arg \in {NoName, StatePath(<<Sid1, 0>>)}, timeout \in Timeouts :
          write_call(path_arg, timeout)
    \/ create_data_asset_call
    \/ \E completed_df \in {"dfA", "dfB"}, name_arg \in {NoName, CustomName},
          skip \in BOOLEAN, timeout \in Timeouts :
          create_manifest_asset_call(completed_df, name_arg, skip, timeout)
    \/ poll_exists
    \/ poll_sleep
    \/ poll_timeout
    \/ register
    \/ wait_returns
    \/ wait_times_out
    \/ \E i \in 1..MaxAssets : platform_ready(i)
    \/ Tick
    \/ Return

Spec == Init /\ [][Next]_vars

\* ------------------------------------------------------------- the launch
\* DataAssetsRunParam(id=asset.id, mount=asset.name)
RunParam(a) == [id |-> a.id, mount |-> a.name]
RunParams(assets) == [i \in 1..Len(assets) |-> RunParam(assets[i])]
ManifestAsset(i) == [id |-> CatalogId(i), name |-> catalog[i].name]

\* IBLDataConverterExtension.run_data_converter_capsule: the tuple of assets
\* is built left to right; sorted_data_assets is its second part
run_data_converter_capsule_call ==
    /\ Idle
    /\ clock <= MaxClock
    /\ Len(computations) < MaxRuns
    /\ op' = "launch" /\ result' = <<>> /\ err' = ""
    /\ submit_all
    /\ UNCHANGED <<ngvars, sessions, buildvars, files, clock, catalog, cache,
                   computations, writes, last_pub, lifevars>>

\* the list that is submitted, from the sorted assets, the SmartSPIM assets
\* and the manifest assets found by name
data_assets(sorted, spim, manifests) ==
    RunParams(ecephys_data_assets(sessions))
      \o RunParams(sorted)
      \o <<RunParam(spim[Len(spim)])>>
      \o <<RunParam(ManifestAsset(manifests[Len(manifests)]))>>

run_capsule_partial ==
    /\ op = "launch"
    /\ FanoutOver
    /\ LET sorted == listing_result(assets_all_sessions)
           spim == smartspim_data_assets(sessions)
           manifests == cached_get_data_assets
       IN  /\ cache' = manifests
           /\ computations' = Append(computations,
                 [data_assets |-> RunParams(ecephys_data_assets(sessions)) \o RunParams(sorted)
                     \o (IF spim = <<>> THEN <<>> ELSE <<RunParam(spim[Len(spim)])>>)
                     \o (IF manifests = <<>> THEN <<>>
                         ELSE <<RunParam(ManifestAsset(manifests[Len(manifests)]))>>),
                  state |-> "running"])
           /\ result' = [id |-> Len(computations) + 1, state |-> "running"]
           /\ pc' = "done"
    /\ UNCHANGED <<op, err, ngvars, sessions, fanvars, buildvars, files, clock, catalog,
                   writes, last_pub, lifevars>>

\* the rest of run_data_converter_capsule: smartspim_data_assets[-1] raises
\* IndexError on an empty tuple, manifest_data_asset raises AttributeError
\* when no asset is found; else computations.run_capsule(run_params), whose
\* value is returned as it is
run_data_converter_capsule_return ==
    /\ op = "launch"
    /\ FanoutOver
    /\ LET sorted == listing_result(assets_all_sessions)
           spim == smartspim_data_assets(sessions)
           manifests == cached_get_data_assets
       IN  IF spim = <<>>
           THEN /\ pc' = "error" /\ err' = "IndexError"
                /\ UNCHANGED <<result, cache, computations>>
           ELSE /\ cache' = manifests
                /\ IF manifests = <<>>
                   THEN /\ pc' = "error" /\ err' = "AttributeError"
                        /\ UNCHANGED <<result, computations>>
                   ELSE /\ computations' = Append(computations,
                              [data_assets |-> data_assets(sorted, spim, manifests),
                               state |-> "running"])
                        /\ result' = [id |-> Len(computations) + 1, state |-> "running"]
                        /\ pc' = "done" /\ err' = ""
    /\ UNCHANGED <<op, ngvars, sessions, fanvars, buildvars, files, clock, catalog,
                   writes, last_pub, lifevars>>

\* the platform ends a run
computation_ends(k) ==
    /\ k \in 1..Len(computations)
    /\ computations[k].state = "running"
    /\ computations' = [computations EXCEPT ![k].state = "completed"]
    /\ UNCHANGED <<prog, ngvars, sessions, fanvars, buildvars, files, clock, catalog,
                   cache, writes, last_pub, lifevars>>

\* -------------------------------------------- specification: the launch
InitLaunch ==
    /\ InitProg /\ InitFan /\ InitBuild /\ InitEnv /\ InitLife
    /\ InitNg(GoodDoc)
    /\ \E nSpim \in 0..2 : sessions = World(4, nSpim, TRUE, FALSE)
    /\ files = <<>>

NextLaunch ==
    \/ \E name_arg \in {NoName, CustomName}, skip \in BOOLEAN :
          create_manifest_asset_call("dfA", name_arg, skip, MaxTimeout)
    \/ poll_exists
    \/ poll_sleep
    \/ poll_timeout
    \/ register
    \/ wait_returns
    \/ wait_times_out
    \/ \E i \in 1..MaxAssets : platform_ready(i)
    \/ run_data_converter_capsule_call
    \/ \E i \in 1..Len(sessions) : TaskFinish(i)
    \/ as_completed_step
    \/ fanout_raise
    \/ run_data_converter_capsule_return
    \/ \E k \in 1..MaxRuns : computation_ends(k)
    \/ Tick
    \/ Return

SpecLaunch == InitLaunch /\ [][NextLaunch]_vars

\* ------------------------------------- specification: persisted documents
\* a state document of the subject's second SmartSPIM session
Sid2Doc ==
    << [type |-> "image", name |-> "img",
        source |-> "s3://b/SmartSPIM_123456_2024-02-02_00-00-00/ch0.zarr"],
       [type |-> "annotation", name |-> "probeB", source |-> ""] >>

\* NeuroglancerState.__init__ with a mapping: a new state object
NeuroglancerState_init(doc) ==
    /\ Idle
    /\ content # doc
    /\ content' = doc
    /\ ng_session' = NoId
    /\ derivations' = 0
    /\ calls' = 0
    /\ UNCHANGED <<prog, sessions, fanvars, buildvars, files, envvars, lifevars>>

InitPersist ==
    /\ InitProg /\ InitFan /\ InitBuild /\ InitEnv /\ InitLife
    /\ \E doc \in {GoodDoc, Sid2Doc} : InitNg(doc)
    /\ sessions = World(5, 1, FALSE, FALSE)
    /\ files = <<>>

NextPersist ==
    \/ \E doc \in {GoodDoc, Sid2Doc} : NeuroglancerState_init(doc)
    \/ \E timeout \in Timeouts : write_call(NoName, timeout)
    \/ poll_exists
    \/ poll_sleep
    \/ poll_timeout
    \/ Tick
    \/ \E names_arg \in [1..1 -> RecordingNames] : get_partial_df_call(NoName, names_arg)
    \/ Return

SpecPersist == InitPersist /\ [][NextPersist]_vars

\* --------------------------------------------- the source of a data asset
\* A string is a sequence of characters. A destination is the sequence of the
\* segments that follow the scheme: s3://seg1/seg2/.../segk.
MaxSegs == 3        \* segments of a destination path
MaxSegLen == 2      \* characters of one segment

SegChars == {"a", "b"}
Segments == UNION {[1..n -> SegChars] : n \in 1..MaxSegLen}
Destinations == UNION {[1..k -> Segments] : k \in 1..MaxSegs}

Scheme == <<"s", "3", ":">>
Sep == <<"/">>

RECURSIVE Join(_, _)
Join(segs, sep) ==
    IF segs = <<>> THEN <<>>
    ELSE IF Len(segs) = 1 THEN segs[1]
    ELSE segs[1] \o sep \o Join(Tail(segs), sep)

\* UPath.as_posix(): "s3://seg1/seg2/.../segk"
as_posix(segs) == Scheme \o Sep \o Sep \o Join(segs, Sep)

\* str.split(sep): the pieces between the occurrences of sep, left to right
RECURSIVE split(_, _)
split(s, sep) ==
    LET n == Len(sep)
        hits == {i \in 1..(Len(s) - n + 1) : SubSeq(s, i, i + n - 1) = sep}
    IN  IF hits = {} THEN <<s>>
        ELSE LET i == CHOOSE h \in hits : \A g \in hits : h <= g
             IN  <<SubSeq(s, 1, i - 1)>> \o split(SubSeq(s, i + n, Len(s)), sep)

RECURSIVE lstrip(_, _)
lstrip(s, c) == IF s # <<>> /\ Head(s) = c THEN lstrip(Tail(s), c) ELSE s

RECURSIVE rstrip(_, _)
rstrip(s, c) ==
    IF s # <<>> /\ s[Len(s)] = c THEN rstrip(SubSeq(s, 1, Len(s) - 1), c) ELSE s

\* str.strip("/")
strip(s, c) == rstrip(lstrip(s, c), c)

\* Python's s.split(...)[k]
Item(pieces, k) == pieces[k + 1]

\* bucket := path.as_posix().split("/")[2]
bucket(posix) == Item(split(posix, Sep), 2)

\* path.as_posix().split(bucket)[1].strip("/")
prefix(posix) == strip(Item(split(posix, bucket(posix)), 1), "/")

\* codeocean.data_asset.AWSS3Source(bucket=..., prefix=...)
AWSS3Source(p) == [bucket |-> bucket(as_posix(p)), prefix |-> prefix(as_posix(p))]

\* the asset_params of a registration for the destination p
asset_params(p) ==
    /\ Idle
    /\ op' = "source"
    /\ path' = p
    /\ result' = AWSS3Source(p)
    /\ pc' = "done" /\ err' = ""
    /\ UNCHANGED <<ngvars, sessions, fanvars, buildvars, files, envvars,
                   t0, timeout_sec, polls, seen, asset_name, skip_existing, new_asset,
                   ready_timeout, regs0, writes0>>

InitSource ==
    /\ InitProg /\ InitFan /\ InitBuild /\ InitEnv /\ InitLife
    /\ InitNg(GoodDoc)
    /\ sessions = World(5, 1, FALSE, FALSE)
    /\ files = <<>>

NextSource ==
    \/ \E p \in Destinations : asset_params(p)
    \/ Return

SpecSource == InitSource /\ [][NextSource]_vars

\* ================================================================== claims
\* what the claims speak of, stated from the data and not from the operators
\* of the model
AnnIdx(doc) == {i \in 1..Len(doc) : doc[i].type = "annotation"}
LabelAt(doc, k) ==
    doc[CHOOSE i \in AnnIdx(doc) : Cardinality({j \in AnnIdx(doc) : j < i}) = k - 1].name
DistinctIdentities(doc) ==
    {id \in {Sid1, Sid2} :
        \E i \in 1..Len(doc) : doc[i].type = "image" /\ AINDSessionRecord(doc[i].source) = id}
NonErrorSortedOf(I) ==
    {a \in UNION {Range(sessions[i].sorted) : i \in I} : ~a.err}
NonErrorSorted == NonErrorSortedOf({i \in 1..Len(sessions) : sessions[i].platform = "ecephys"})
NonDecreasingCreated(assets) ==
    \A i \in 1..Len(assets), j \in 1..Len(assets) : i < j => assets[i].created <= assets[j].created

\* C1: with a non-empty recording-name list R (length n) and the labels L of the
\* state document (length m, document order, duplicates kept), get_partial_df
\* returns m*n rows, row i*n+j pairing L[i] with R[j], each with the subject id
\* as mouseid, a blank probe_name and the state file's name as probe_file.
C1_CrossProduct ==
    (op = "build" /\ pc = "done" /\ b_names # <<>>) =>
        LET doc == files[StatePath(b_name)]
            m == Cardinality(AnnIdx(doc))
            n == Len(b_names)
        IN  /\ Len(result) = m * n
            /\ \A i \in 0..(m - 1), j \in 0..(n - 1) :
                  LET r == result[i * n + j + 1]
                  IN  /\ r.probe_id = LabelAt(doc, i + 1)
                      /\ r.sorted_recording = b_names[j + 1]
                      /\ r.mouseid = SubjectId
                      /\ r.probe_name = ""
                      /\ r.probe_file = b_name

C1_Witness ==
    /\ op = "build" /\ pc = "done"
    /\ Len(b_names) = 2 /\ b_names[1] # b_names[2]
    /\ Len(result) = 4
    /\ result[1].probe_id = result[3].probe_id

\* C5: when the fetch task of one experiment raises, sorted_data_assets
\* still returns the created-time-sorted assets of the other experiments.
C5_FailureIsolated ==
    (op = "listing" /\ pc \in {"done", "error"}
        /\ Cardinality({i \in DOMAIN futures : futures[i] = "raised"}) = 1) =>
        /\ pc = "done"
        /\ NonDecreasingCreated(result)
        /\ Range(result) = NonErrorSortedOf({i \in DOMAIN futures : futures[i] = "ok"})

\* C8 (as stated): an empty recording-name list, or an empty label list,
\* gives a manifest of zero rows.
C8_EmptyInputsGiveNoRows ==
    (op = "build" /\ pc = "done"
        /\ (b_names = <<>> \/ AnnIdx(files[StatePath(b_name)]) = {})) =>
        result = <<>>

\* C8 (amended): an empty label list gives zero rows; an empty recording-name
\* list is replaced by the name-sorted names of all non-error sorted assets
\* of the subject, so the manifest has one row per label and such asset.
C8_EmptyNamesMeanAllSorted ==
    (op = "build" /\ pc = "done") =>
        LET doc == files[StatePath(b_name)]
            m == Cardinality(AnnIdx(doc))
            K == Cardinality(NonErrorSorted)
        IN  /\ m = 0 => result = <<>>
            /\ b_names = <<>> =>
                 /\ Len(result) = m * K
                 /\ \A i \in 0..(m - 1) :
                      /\ \A a \in NonErrorSorted :
                            Cardinality({j \in 1..K : result[i * K + j].sorted_recording = a.name})
                              = Cardinality({x \in NonErrorSorted : x.name = a.name})
                      /\ \A j \in 1..(K - 1) :
                            NameRank(result[i * K + j].sorted_recording)
                              <= NameRank(result[i * K + j + 1].sorted_recording)
                      /\ \A j \in 1..K : result[i * K + j].probe_id = LabelAt(doc, i + 1)

C8_Witness ==
    /\ op = "build" /\ pc = "done"
    /\ b_names = <<>>
    /\ Len(result) >= 6

\* C9: session skips the image sources that hold no session id; one distinct
\* id is returned, none is a ValueError, two or more a NotImplementedError,
\* and a resolved id is kept: the derivation loop never runs again.
C9_IdentityResolution ==
    /\ (op = "session" /\ pc = "done") =>
          /\ DistinctIdentities(content) = {result}
          /\ ng_session = result
    /\ (op = "session" /\ pc = "error") =>
          /\ ng_session = NoId
          /\ \/ err = "ValueError" /\ DistinctIdentities(content) = {}
             \/ err = "NotImplementedError" /\ Cardinality(DistinctIdentities(content)) >= 2
    /\ ng_session # NoId => derivations = 1

C9_Witness ==
    /\ op = "session" /\ pc = "done"
    /\ calls >= 2 /\ derivations = 1
    /\ \E i \in 1..Len(content) :
          content[i].type = "image" /\ AINDSessionRecord(content[i].source) = NoId
    /\ \E i, j \in 1..Len(content) :
          /\ content[i].type = "image" /\ content[j].type = "image"
          /\ content[i].source # content[j].source
          /\ AINDSessionRecord(content[i].source) = AINDSessionRecord(content[j].source)

\* C10: whatever the completion order of the tasks, a listing that returns
\* holds every non-error sorted asset of every ecephys session exactly once
\* (assets of the same name stay distinct entries), non-decreasing in created.
C10_ListingDeterministic ==
    (op = "listing" /\ pc = "done") =>
        /\ NonDecreasingCreated(result)
        /\ Range(result) = NonErrorSorted
        /\ Len(result) = Cardinality(NonErrorSorted)

C10_Witness ==
    /\ op = "listing" /\ pc = "done"
    /\ completed[1] = 5 /\ completed[3] = 1
    /\ \E i, j \in 1..Len(result) : i # j /\ result[i].name = result[j].name


ManifestAssets == {i \in 1..Len(catalog) : catalog[i].name = Stem(ManifestPath)}
RawAssets == {sessions[i].raw : i \in {k \in 1..Len(sessions) : sessions[k].platform = "ecephys"}}
                \ {NoAsset}
SpimAssets == {sessions[i].raw : i \in {k \in 1..Len(sessions) : sessions[k].platform = "SmartSPIM"}}
                \ {NoAsset}
Publishing == op \in {"publish", "state_asset"}
Polling == op \in {"write", "publish", "state_asset"}

\* C2: a second create_manifest_asset with the same name and skip_existing
\* returns the id the first returned, with no further write to the store and
\* no further registration.
C2_PublishIdempotent ==
    (op = "publish" /\ pc = "done" /\ skip_existing
        /\ last_pub.valid /\ last_pub.skip /\ last_pub.name = asset_name) =>
        /\ result = last_pub.id
        /\ writes = last_pub.writes
        /\ Len(catalog) = last_pub.regs

\* C3: a publish that is not short-circuited writes, then polls until the
\* object is seen, then registers one asset, then waits (timeout 60) and
\* returns that asset only when it is ready; an error ends the call with at
\* most that one write and that one registration.
C3_PublishOrder ==
    /\ (Publishing /\ pc = "poll") =>
          path \in DOMAIN files /\ writes = writes0 + 1 /\ Len(catalog) = regs0
    /\ (Publishing /\ pc = "register") => seen /\ Len(catalog) = regs0
    /\ (Publishing /\ new_asset # 0) =>
          /\ seen
          /\ new_asset = regs0 + 1 /\ Len(catalog) = regs0 + 1
          /\ writes = writes0 + 1
          /\ catalog[new_asset].source = path
          /\ ready_timeout = 60
    /\ (Publishing /\ pc = "wait") => new_asset # 0
    /\ (Publishing /\ pc = "done" /\ ~(op = "publish" /\ skip_existing /\ new_asset = 0)) =>
          /\ new_asset # 0
          /\ catalog[new_asset].state = "ready"
          /\ result = CatalogId(new_asset)
    /\ (Publishing /\ pc = "error" /\ err = "ReadyTimeout") =>
          new_asset # 0 /\ Len(catalog) = regs0 + 1 /\ writes = writes0 + 1

C3_Witness ==
    /\ op = "publish" /\ pc = "done" /\ new_asset # 0 /\ polls >= 2
    /\ catalog[new_asset].state = "ready"

\* C4: the poll loop raises TimeoutError only when every exists() was false
\* and timeout_sec has elapsed, after at most timeout_sec polls; without a
\* true answer the call goes no further, and the loop can always go on or end.
C4_PollTimeout ==
    /\ (Polling /\ pc = "error" /\ err = "TimeoutError") =>
          ~seen /\ clock - t0 >= timeout_sec /\ polls = timeout_sec
    /\ (Polling /\ pc \in {"poll", "register", "wait"}) => polls <= timeout_sec
    /\ (Polling /\ pc \in {"register", "wait"}) => seen
    /\ (Polling /\ pc = "poll") => (ENABLED poll_sleep) \/ (ENABLED poll_timeout)

C4_Witness ==
    /\ op \in {"write", "publish"} /\ pc = "error" /\ err = "TimeoutError"
    /\ timeout_sec = MaxTimeout /\ polls = MaxTimeout

\* C6: a launch submits one list: the raw assets of the ecephys sessions, the
\* sorted assets, the SmartSPIM asset of greatest created, and a manifest
\* asset; it returns the run as accepted, still running.
C6_LaunchList ==
    [][Len(computations') # Len(computations) =>
        LET run == computations'[Len(computations')]
            d == run.data_assets
            nR == Cardinality(RawAssets)
            nS == Cardinality(NonErrorSorted)
        IN  /\ op = "launch" /\ pc' = "done"
            /\ Len(computations') = Len(computations) + 1
            /\ Len(d) = nR + nS + 2
            /\ {d[i].id : i \in 1..nR} = {a.id : a \in RawAssets}
            /\ {d[nR + i].id : i \in 1..nS} = {a.id : a \in NonErrorSorted}
            /\ \E a \in SpimAssets :
                  /\ a.id = d[nR + nS + 1].id
                  /\ \A b \in SpimAssets : b.created <= a.created
            /\ d[nR + nS + 2].id \in {CatalogId(i) : i \in ManifestAssets}
            /\ run.state = "running"
            /\ result' = [id |-> Len(computations'), state |-> "running"]
    ]_vars

C6_Witness ==
    /\ op = "launch" /\ pc = "done"
    /\ Cardinality(SpimAssets) = 2
    /\ Len(computations[result.id].data_assets) = 6
    /\ computations[result.id].state = "running"

\* C7: with no SmartSPIM asset, or no manifest asset, a launch ends in an
\* error and nothing is submitted: every submitted list is complete.
C7_NoPartialLaunch ==
    /\ []((op = "launch" /\ pc = "done") => (SpimAssets # {} /\ ManifestAssets # {}))
    /\ [][Len(computations') # Len(computations) =>
            /\ SpimAssets # {} /\ ManifestAssets # {}
            /\ Len(computations'[Len(computations')].data_assets)
                 = Cardinality(RawAssets) + Cardinality(NonErrorSorted) + 2
       ]_vars

C7_Witness ==
    /\ op = "launch" /\ pc = "error" /\ err = "IndexError"
    /\ SpimAssets = {} /\ ManifestAssets # {}
    /\ computations = <<>>

\* C11: no step of a persist or a publish overwrites or changes an object of
\* the store or the name or source of a registered asset: objects and assets
\* are only added, and a publish that is short-circuited by skip_existing
\* writes nothing and registers nothing.
C11_AppendOnly ==
    [][ /\ \A p \in DOMAIN files : p \in DOMAIN files' /\ files'[p] = files[p]
        /\ Len(catalog') >= Len(catalog)
        /\ \A i \in 1..Len(catalog) :
              catalog'[i].name = catalog[i].name /\ catalog'[i].source = catalog[i].source
        /\ (pc = "idle" /\ op' = "publish" /\ pc' = "done") =>
              files' = files /\ writes' = writes /\ catalog' = catalog
    ]_vars

\* C12: a launch that follows a create_manifest_asset(skip_existing=False)
\* which returned asset A never ends in the not-found AttributeError of
\* manifest_data_asset, and the list it submits ends with the id of A.
C12_LaunchUsesPublished ==
    (op = "launch" /\ last_pub.valid /\ ~last_pub.skip) =>
        /\ pc = "error" => err # "AttributeError"
        /\ pc = "done" =>
              LET d == computations[result.id].data_assets
              IN  d[Len(d)].id = last_pub.id

\* the state documents of the subject that are in the store
SubjectDocuments == {p \in DOMAIN files : p[1] = StateDir /\ p[2] \in {Sid1, Sid2}}

\* C13: after default-named writes of state documents (of either session of
\* the subject), get_partial_df without a document name fails with
\* FileNotFoundError when the store holds no document of the subject, and
\* else builds the manifest from the document of greatest timestamp.
C13_LatestDocument ==
    (op = "build" /\ pc \in {"done", "error"}) =>
        IF SubjectDocuments = {}
        THEN pc = "error" /\ err = "FileNotFoundError"
        ELSE /\ pc = "done"
             /\ StatePath(b_name) \in SubjectDocuments
             /\ \A p \in SubjectDocuments : p[3] <= b_name[2]
             /\ b_content = files[StatePath(b_name)]
             /\ \A i \in 1..Len(result) : result[i].probe_file = b_name

\* C14: for every destination s3://seg1/seg2/.../segk the registered source
\* has bucket seg1 and, as prefix, the whole remainder seg2/.../segk, also
\* when the bucket name occurs again later in the path.
C14_SourceOfPath ==
    (op = "source" /\ pc = "done") =>
        /\ result.bucket = path[1]
        /\ result.prefix = Join(Tail(path), Sep)

====
